---- MODULE Spec2Model ----
(***************************************************************************)
(* The spreadsheet ingestion pipeline of the recruitment dashboard server: *)
(* the import orchestrator (services/sheetsService.ts), the per-source     *)
(* scheduler with its rate limiter (services/configService.ts) and the     *)
(* maintenance route that wipes all data (routes/maintenance.ts).          *)
(*                                                                         *)
(* The server is one event loop.  Every action below is one run-to-        *)
(* completion slice of a handler: from one resumption to the next await    *)
(* whose promise is settled by the outside world (a network fetch or a     *)
(* store operation).  A store operation takes effect in the step that      *)
(* settles it.                                                              *)
(***************************************************************************)
EXTENDS Integers, Sequences, FiniteSets, TLC

(***************************************************************************)
(* Bounds of the model.                                                    *)
(***************************************************************************)
\* data rows a fetched tab may carry, at most
MaxRows == 1
\* save requests, clear requests and timer fires, at most, where import runs
\* are followed to their end
MaxEvents == 2
\* timer fires, at most, where the rate limiter is exercised
MaxCalls == 25
\* clock ticks, at most
MaxTicks == 1

(***************************************************************************)
(* The four record kinds, in the order the persistence step visits them.   *)
(***************************************************************************)
Kinds == <<"recruiters", "candidates", "clients", "performance">>

KindSet == {Kinds[i] : i \in 1..4}

Keys == {"k1", "k2"}

(***************************************************************************)
(* Header rows (lower-cased, trimmed cells) the spreadsheet may serve.     *)
(***************************************************************************)
HdrRecruiters ==
  {"name", "email", "phone", "department", "territory", "hired", "joindate",
   "status", "trend", "location"}

HdrCandidates ==
  {"name", "email", "phone", "position", "experience", "skills", "status",
   "salary", "recruiter", "client", "applieddate", "location"}

HdrClients ==
  {"name", "company", "email", "phone", "industry", "totalhired",
   "avgdaystofill", "status", "location", "lastactivity"}

HdrPerformance == {"month", "recruiters", "hired", "target"}

CanonHeader(tab) ==
  CASE tab = "recruiters" -> HdrRecruiters
    [] tab = "candidates" -> HdrCandidates
    [] tab = "clients" -> HdrClients
    [] OTHER -> HdrPerformance

(***************************************************************************)
(* A settled tab fetch as line 604 keeps it: null, or the values array     *)
(* (len = values.length, hdr = the cells of values[0]).                    *)
(***************************************************************************)
Null == [ok |-> FALSE, len |-> 0, hdr |-> {}]

Values(len, hdr) == [ok |-> TRUE, len |-> len, hdr |-> IF len = 0 THEN {} ELSE hdr]

\* what the spreadsheet may hold in one tab
\* (a performance tab may also come without a "hired" column)
TabData(tab) ==
  {Values(0, {})} \cup {Values(l, CanonHeader(tab)) : l \in 1..(MaxRows + 1)}
    \cup (IF tab = "performance"
          THEN {Values(l, {"month", "target"}) : l \in 2..(MaxRows + 1)}
          ELSE {})

\* one tab's fetch, as the outside world decides it: the service-account
\* call (null: no credentials or failed token exchange; throw: the values
\* request failed; values), the key-based call (ok, http: non-2xx) and the
\* tab's data
TabInputs(tab) ==
  {[sa |-> "values", kr |-> "ok", data |-> d] : d \in TabData(tab)}
    \cup {[sa |-> "null", kr |-> "ok", data |-> d] : d \in TabData(tab)}
    \cup {[sa |-> "throw", kr |-> "http", data |-> Values(0, {})]}

FetchInputs ==
  {[recruiters |-> a, candidates |-> b, clients |-> c, performance |-> d] :
     a \in TabInputs("recruiters"), b \in TabInputs("candidates"),
     c \in TabInputs("clients"), d \in TabInputs("performance")}

\* fetchSheet: service account first, then the API key, else configuration error
fetchSheet(in, hasKey) ==
  IF in.sa = "values" THEN [ok |-> TRUE, err |-> "", val |-> in.data]
  ELSE IF ~hasKey THEN [ok |-> FALSE, err |-> "config", val |-> Null]
  ELSE IF in.kr = "ok" THEN [ok |-> TRUE, err |-> "", val |-> in.data]
  ELSE [ok |-> FALSE, err |-> "http", val |-> Null]

\* Promise.allSettled and the map of line 604: a rejected fetch becomes null
Settled(ins, hasKey) ==
  [t \in KindSet |->
     IF fetchSheet(ins[t], hasKey).ok THEN fetchSheet(ins[t], hasKey).val ELSE Null]

(***************************************************************************)
(* Sheet-type inference from the header row (inferType).                   *)
(***************************************************************************)
CandidateKeys ==
  {"position", "role", "applieddate", "applied date", "salary", "doj", "client"}

ClientKeys ==
  {"company", "industry", "total hired", "avgdaystofill", "last activity"}

RecruiterKeys ==
  {"hired", "territory", "trend", "join date", "joindate", "department"}

PerformanceKeys == {"month", "target", "hired"}

has(keys, header) == keys \cap header # {}

\* inferType with the performance test moved to the front
inferPerformanceFirst(resp) ==
  IF ~resp.ok \/ resp.len = 0 THEN "null"
  ELSE IF has(PerformanceKeys, resp.hdr) THEN "performance"
  ELSE IF has(CandidateKeys, resp.hdr) THEN "candidates"
  ELSE IF has(ClientKeys, resp.hdr) THEN "clients"
  ELSE IF has(RecruiterKeys, resp.hdr) THEN "recruiters"
  ELSE "null"

inferType(resp) ==
  IF ~resp.ok \/ resp.len = 0 THEN "null"
  ELSE IF has(CandidateKeys, resp.hdr) THEN "candidates"
  ELSE IF has(ClientKeys, resp.hdr) THEN "clients"
  ELSE IF has(RecruiterKeys, resp.hdr) THEN "recruiters"
  ELSE IF has(PerformanceKeys, resp.hdr) THEN "performance"
  ELSE "null"

\* inferRowsType of importPublishedAndSave (lines 849-858): no inference
\* without a data row, and its own client keywords
PublishedClientKeys ==
  {"company", "industry", "total hired", "avg daystofill", "last activity"}

inferRowsType(rows) ==
  IF rows.len < 2 THEN "null"
  ELSE IF has(CandidateKeys, rows.hdr) THEN "candidates"
  ELSE IF has(PublishedClientKeys, rows.hdr) THEN "clients"
  ELSE IF has(RecruiterKeys, rows.hdr) THEN "recruiters"
  ELSE IF has(PerformanceKeys, rows.hdr) THEN "performance"
  ELSE "null"

(***************************************************************************)
(* Records.  A record is named by the run that parsed it, the tab it came  *)
(* from and its row; run 0 is the data stored before the first run.        *)
(***************************************************************************)
Rec(run, tab, row) == [run |-> run, tab |-> tab, row |-> row]

\* parseRecruiters .. parsePerformance: no rows unless values has a header
\* and at least one more row; else one record per data row
parseRows(run, tab, resp) ==
  IF resp.len < 2 THEN {} ELSE {Rec(run, tab, i) : i \in 1..(resp.len - 1)}

\* the kind a fetched tab's rows are assigned to (the if/else chains of
\* lines 630-656): the inferred kind when it is another kind, else the
\* nominal kind
Target(tab, resp) ==
  IF inferType(resp) \in KindSet \ {tab} THEN inferType(resp) ELSE tab

\* the tabs assigned to kind k, by position in the processing order
RoutedTo(res, k) ==
  {i \in 1..4 : res[Kinds[i]].ok /\ Target(Kinds[i], res[Kinds[i]]) = k}

Last(S) == CHOOSE i \in S : \A j \in S : j <= i

\* the four result variables after lines 618-663: each assignment
\* overwrites, so a kind holds the rows of the last tab assigned to it
Route(run, res) ==
  [k \in KindSet |->
     IF RoutedTo(res, k) = {} THEN {}
     ELSE parseRows(run, Kinds[Last(RoutedTo(res, k))],
                    res[Kinds[Last(RoutedTo(res, k))]])]

\* importPublishedAndSave, lines 860-889: the same chains without the
\* guards, so every tab assigns, a tab without rows too
PublishedTarget(tab, rows) ==
  IF inferRowsType(rows) \in KindSet \ {tab} THEN inferRowsType(rows) ELSE tab

PublishedRoutedTo(res, k) ==
  {i \in 1..4 : PublishedTarget(Kinds[i], res[Kinds[i]]) = k}

RoutePublished(run, res) ==
  [k \in KindSet |->
     IF PublishedRoutedTo(res, k) = {} THEN {}
     ELSE parseRows(run, Kinds[Last(PublishedRoutedTo(res, k))],
                    res[Kinds[Last(PublishedRoutedTo(res, k))]])]

\* the four CSV exports as parseCsvToObjects leaves them (lines 837-847):
\* no line when tryFetchCsv gave null
CsvInputs ==
  {[recruiters |-> a, candidates |-> b, clients |-> c, performance |-> d] :
     a \in TabData("recruiters"), b \in TabData("candidates"),
     c \in TabData("clients"), d \in TabData("performance")}

(***************************************************************************)
(* State.                                                                  *)
(***************************************************************************)
VARIABLES
  store,      \* the four collections: kind -> set of records
  configs,    \* the SheetsConfig collection: key -> document
  envKey,     \* whether process.env.GOOGLE_SHEETS_API_KEY is set
  runs,       \* every import run started so far, by run number
  intervals,  \* the intervals map: key -> timer id (0: no entry)
  timers,     \* the armed interval timers of the event loop
  timerSeq,   \* timers created so far
  runHistory, \* the runHistory map: key -> run timestamps (<<>>: no entry)
  now,        \* Date.now(), in ms
  callLog,    \* history: every call of run(), per key, with its outcome
  saves,      \* saveSheetsConfig calls whose upsert has resolved
  clear,      \* handleClearData: the delete it awaits (0: none in flight)
  boot,       \* startScheduledJobs: init, found (find resolved), up
  counts,     \* events and clock ticks so far
  calc        \* a parser or fetch helper under study: its input and results

vars ==
  <<store, configs, envKey, runs, intervals, timers, timerSeq, runHistory, now,
    callLog, saves, clear, boot, counts, calc>>

MAX_IMPORTS_PER_MINUTE == 20

WindowMs == 60000

PriorSet(k) == {Rec(0, k, 1)}

(***************************************************************************)
(* SheetsConfig documents.  refreshIntervalMinutes is kept in hundredths   *)
(* of a minute (0.05 min = 5); a request without a numeric interval has    *)
(* minutes = <<>>.  ranges: whether the document holds a ranges object.    *)
(***************************************************************************)
NoConfig ==
  [present |-> FALSE, autoRefresh |-> FALSE, minutes |-> 0, apiKey |-> FALSE,
   ranges |-> FALSE, lastRunAt |-> -1]

\* the update document of saveSheetsConfig, lines 16-23
Upsert(old, in) ==
  [present |-> TRUE, autoRefresh |-> in.autoRefresh,
   minutes |-> IF in.minutes = <<>> THEN 6000 ELSE in.minutes[1],
   apiKey |-> in.apiKey, ranges |-> in.ranges, lastRunAt |-> old.lastRunAt]

\* what a job's closure keeps of its document
Doc(key, cfg, ranges) ==
  [key |-> key, minutes |-> cfg.minutes, apiKey |-> cfg.apiKey, ranges |-> ranges]

(***************************************************************************)
(* Import runs.  pc: fetch (awaiting the four fetches), del / ins          *)
(* (awaiting deleteMany / insertMany of kind Kinds[at]), stamp (awaiting   *)
(* the lastRunAt update), done.  ret: what importSheetsAndSave gave its    *)
(* caller.  before: the store when an on-demand run was called (history).  *)
(***************************************************************************)
\* importSheetsAndSave up to its first await; a config without ranges
\* raises a TypeError at ranges.recruiters (line 598), which run() catches
NewRun(origin, src, timer, key, hasKey, ranges, st) ==
  [origin |-> origin, src |-> src, timer |-> timer, key |-> key,
   hasKey |-> hasKey,
   pc |-> IF ranges THEN "fetch" ELSE "done", at |-> 0,
   res |-> [k \in KindSet |-> Null], parsed |-> [k \in KindSet |-> {}],
   dbFailed |-> FALSE, ret |-> IF ranges THEN "pending" ELSE "raised",
   err |-> IF ranges THEN "" ELSE "type",
   stamped |-> FALSE, before |-> st]

\* scheduled runs keep no snapshot
NoSnapshot == [k \in KindSet |-> {}]

InFlight == {r \in DOMAIN runs : runs[r].pc # "done"}

\* the frame of a call that returned is gone by the time a later call is made
Gone ==
  [origin |-> "gone", src |-> "gone", timer |-> 0, key |-> "k1", hasKey |-> FALSE,
   pc |-> "done", at |-> 0, res |-> [k \in KindSet |-> Null],
   parsed |-> [k \in KindSet |-> {}], dbFailed |-> FALSE, ret |-> "gone",
   err |-> "", stamped |-> FALSE, before |-> NoSnapshot]

\* a new run starts; of a finished run only the configuration it ran for
\* is kept
Started(rs, rn) ==
  Append([r \in DOMAIN rs |->
            IF rs[r].pc = "done" THEN [Gone EXCEPT !.key = rs[r].key] ELSE rs[r]],
         rn)

(***************************************************************************)
(* The scheduler's module state, as one record the functions transform.    *)
(***************************************************************************)
Sched ==
  [intervals |-> intervals, timers |-> timers, timerSeq |-> timerSeq,
   runHistory |-> runHistory, runs |-> runs, callLog |-> callLog]

SetSched(S) ==
  /\ intervals' = S.intervals
  /\ timers' = S.timers
  /\ timerSeq' = S.timerSeq
  /\ runHistory' = S.runHistory
  /\ runs' = S.runs
  /\ callLog' = S.callLog

InWindow(t) == t >= now - WindowMs

\* stopJobForConfig as it was before the rate limiter: the timer only
stopKeepingHistory(S, key) ==
  [S EXCEPT !.timers = {t \in @ : t.id # S.intervals[key]},
            !.intervals[key] = 0]

\* stopJobForConfig, lines 82-90
stopJobForConfig(S, key) ==
  [S EXCEPT !.timers = {t \in @ : t.id # S.intervals[key]},
            !.intervals[key] = 0,
            !.runHistory[key] = <<>>]

\* run() as it was before the rate limiter: every call imports
runUnlimited(S, doc, src, timer) ==
  [S EXCEPT !.runHistory[doc.key] = Append(@, now),
            !.runs = Started(@, NewRun("sched", src, timer, doc.key,
                                       doc.apiKey \/ envKey, doc.ranges,
                                       NoSnapshot)),
            !.callLog[doc.key] =
               Append(@, [t |-> now, src |-> src, out |-> "invoked"])]

\* run(), lines 49-74, up to its first await
run(S, doc, src, timer) ==
  LET hist == SelectSeq(S.runHistory[doc.key], InWindow)
  IN IF Len(hist) >= MAX_IMPORTS_PER_MINUTE
     THEN [S EXCEPT !.runHistory[doc.key] = hist,
                    !.callLog[doc.key] =
                       Append(@, [t |-> now, src |-> src, out |-> "skipped"])]
     ELSE [S EXCEPT !.runHistory[doc.key] = Append(hist, now),
                    !.runs = Started(@, NewRun("sched", src, timer, doc.key,
                                               doc.apiKey \/ envKey, doc.ranges,
                                               NoSnapshot)),
                    !.callLog[doc.key] =
                       Append(@, [t |-> now, src |-> src, out |-> "invoked"])]

Max(a, b) == IF a >= b THEN a ELSE b

\* the timer period in ms: Math.max(0.05, minutes) * 60 * 1000
PeriodMs(minutes) == Max(5, minutes) * 600

\* setInterval(run, ms), line 77: the event loop arms the timer with 1 ms
\* when ms is above 2147483647, that is above 3579139 units of 600 ms
TimerDelay(minutes) ==
  IF Max(5, minutes) > 3579139 THEN 1 ELSE PeriodMs(minutes)

\* startJobForConfig without the stopJobForConfig of line 43
startOverRunning(S, doc) ==
  LET id == S.timerSeq + 1
      S2 == run(S, doc, "immediate", id)
  IN [S2 EXCEPT !.timers = @ \cup {[id |-> id, doc |-> doc,
                                    ms |-> TimerDelay(doc.minutes)]},
                !.intervals[doc.key] = id,
                !.timerSeq = id]

\* startJobForConfig, lines 41-80
startJobForConfig(S, doc) ==
  LET S1 == stopJobForConfig(S, doc.key)
      id == S.timerSeq + 1
      S2 == run(S1, doc, "immediate", id)
  IN [S2 EXCEPT !.timers = @ \cup {[id |-> id, doc |-> doc,
                                    ms |-> TimerDelay(doc.minutes)]},
                !.intervals[doc.key] = id,
                !.timerSeq = id]

\* stopAllJobs that empties the maps and clears no timer
forgetAllJobs(S) ==
  [S EXCEPT !.intervals = [k \in Keys |-> 0],
            !.runHistory = [k \in Keys |-> <<>>]]

\* stopAllJobs, lines 98-102
stopAllJobs(S) ==
  [S EXCEPT !.timers = {t \in @ : \A k \in Keys : t.id # S.intervals[k]},
            !.intervals = [k \in Keys |-> 0],
            !.runHistory = [k \in Keys |-> <<>>]]

\* docs.forEach(startJobForConfig), line 95
RECURSIVE StartAll(_, _)
StartAll(S, docs) ==
  IF docs = {} THEN S
  ELSE LET d == CHOOSE d \in docs : TRUE
       IN StartAll(startJobForConfig(S, d), docs \ {d})

(***************************************************************************)
(* Actions: the import orchestrator.                                       *)
(***************************************************************************)
SchedUnchanged ==
  UNCHANGED <<intervals, timers, timerSeq, runHistory, callLog, saves, clear, boot>>

\* handleImportSheets up to the await inside importSheetsAndSave.  The
\* request's ranges default to the four standard ranges, so they are defined.
ImportRequest ==
  /\ runs = <<>>
  /\ InFlight = {}
  /\ \E reqKey \in BOOLEAN :
       runs' = Started(runs, NewRun("demand", "request", 0, "k1",
                                    reqKey \/ envKey, TRUE, store))
  /\ UNCHANGED <<store, configs, envKey, now, counts, calc>>
  /\ SchedUnchanged

\* a call of importPublishedAndSave up to its first await (line 837)
PublishedRequest ==
  /\ runs = <<>>
  /\ runs' = Started(runs, NewRun("demand", "published", 0, "k1", FALSE, TRUE,
                                  store))
  /\ UNCHANGED <<store, configs, envKey, now, counts, calc>>
  /\ SchedUnchanged

\* the first store operation the persistence step awaits after position i
\* (0: none, the function returns)
NextInsert(parsed, i) ==
  IF \E j \in (i + 1)..4 : parsed[Kinds[j]] # {}
  THEN CHOOSE j \in (i + 1)..4 :
         /\ parsed[Kinds[j]] # {}
         /\ \A l \in (i + 1)..(j - 1) : parsed[Kinds[l]] = {}
  ELSE 0

\* importSheetsAndSave returns to its caller: handleImportSheets answers,
\* run() goes on to the lastRunAt update
Returned(rn) ==
  [rn EXCEPT !.ret = "value",
             !.pc = IF rn.origin = "sched" THEN "stamp" ELSE "done",
             !.at = 0]

\* a persistence step without the catch: the failure propagates
RethrowStoreError(rn) ==
  [rn EXCEPT !.dbFailed = TRUE, !.ret = "raised", !.err = "store", !.pc = "done"]

\* the catch of lines 676-678: log and fall through to the return
OnStoreError(rn) == Returned([rn EXCEPT !.dbFailed = TRUE])

\* handleImportSheets resumes when its importSheetsAndSave call settles: it
\* answers with the result, or, when the call raised "Google Sheets access
\* not configured", calls importPublishedAndSave
handleImportSheets(rs, r) ==
  IF /\ rs[r].origin = "demand"
     /\ rs[r].src = "request"
     /\ rs[r].pc = "done"
     /\ rs[r].ret = "raised"
     /\ rs[r].err = "config"
  THEN Append(rs, NewRun("demand", "published", 0, rs[r].key, FALSE, TRUE,
                         rs[r].before))
  ELSE rs

\* the four fetches have settled (lines 597-604); inference, routing and
\* parsing follow (606-663) and the first deleteMany is issued (667)
FetchSettled(r, inputs) ==
  /\ runs[r].pc = "fetch"
  /\ runs[r].src # "published"
  /\ \E ins \in inputs :
       LET res == Settled(ins, runs[r].hasKey)
       IN runs' = [runs EXCEPT ![r].res = res,
                               ![r].parsed = Route(r, res),
                               ![r].pc = "del",
                               ![r].at = 1]
  /\ UNCHANGED <<store, configs, envKey, now, counts, calc>>
  /\ SchedUnchanged

\* importPublishedAndSave: the four CSV fetches have settled (lines
\* 837-847); inference and routing follow and the first deleteMany is
\* issued (line 899)
PublishedSettled(r, inputs) ==
  /\ runs[r].pc = "fetch"
  /\ runs[r].src = "published"
  /\ \E ins \in inputs :
       runs' = [runs EXCEPT ![r].res = ins,
                            ![r].parsed = RoutePublished(r, ins),
                            ![r].pc = "del",
                            ![r].at = 1]
  /\ UNCHANGED <<store, configs, envKey, now, counts, calc>>
  /\ SchedUnchanged

\* a deleteMany that removes nothing
deleteNone(st, k) == st

\* Model.deleteMany({}) of one kind
deleteMany(st, k) == [st EXCEPT ![k] = {}]

\* Model.insertMany(records) of one kind
insertMany(st, k, recs) == [st EXCEPT ![k] = @ \cup recs]

\* after a settled store operation of the persistence step: the next
\* deleteMany, the next insertMany of a non-empty set, or the return
Advance(rn) ==
  IF rn.pc = "del" /\ rn.at < 4 THEN [rn EXCEPT !.at = rn.at + 1]
  ELSE LET j == NextInsert(rn.parsed, IF rn.pc = "del" THEN 0 ELSE rn.at)
       IN IF j = 0 THEN Returned(rn) ELSE [rn EXCEPT !.pc = "ins", !.at = j]

\* one deleteMany / insertMany of the persistence step settles (667-675)
StoreStep(r, outcomes) ==
  /\ runs[r].pc \in {"del", "ins"}
  /\ \E ok \in outcomes :
       IF ok
       THEN /\ store' = IF runs[r].pc = "del"
                        THEN deleteMany(store, Kinds[runs[r].at])
                        ELSE insertMany(store, Kinds[runs[r].at],
                                        runs[r].parsed[Kinds[runs[r].at]])
            /\ runs' = handleImportSheets(
                          [runs EXCEPT ![r] = Advance(runs[r])], r)
       ELSE /\ store' = store
            /\ runs' = handleImportSheets(
                          [runs EXCEPT ![r] = OnStoreError(runs[r])], r)
  /\ UNCHANGED <<configs, envKey, now, counts, calc>>
  /\ SchedUnchanged

\* SheetsConfig.findOneAndUpdate({spreadsheetId}, {lastRunAt}) settles
\* (line 69); no upsert: a deleted configuration is not recreated
StampStep(r, outcomes) ==
  /\ runs[r].pc = "stamp"
  /\ \E ok \in outcomes :
       IF ok
       THEN /\ configs' = [configs EXCEPT ![runs[r].key].lastRunAt =
                             IF configs[runs[r].key].present THEN now ELSE @]
            /\ runs' = [runs EXCEPT ![r].pc = "done", ![r].stamped = TRUE]
       ELSE /\ configs' = configs
            /\ runs' = [runs EXCEPT ![r].pc = "done"]
  /\ UNCHANGED <<store, envKey, now, counts, calc>>
  /\ SchedUnchanged

(***************************************************************************)
(* Actions: the scheduler (configService.ts) and the maintenance route.    *)
(***************************************************************************)
\* saveSheetsConfig: the upsert takes effect and resolves with the new
\* document (lines 14-25)
SaveUpsert(key, in) ==
  /\ counts.events < MaxEvents
  /\ configs' = [configs EXCEPT ![key] = Upsert(@, in)]
  /\ saves' = saves \cup {[id |-> counts.events + 1, key |-> key,
                           doc |-> Upsert(configs[key], in)]}
  /\ counts' = [counts EXCEPT !.events = @ + 1]
  /\ UNCHANGED <<store, envKey, runs, intervals, timers, timerSeq, runHistory,
                 now, callLog, clear, boot, calc>>

\* saveSheetsConfig after the await: start or stop the job (lines 27-34).
\* The hydrated document always carries a ranges object.
SaveApply(s) ==
  /\ s \in saves
  /\ SetSched(IF s.doc.autoRefresh
              THEN startJobForConfig(Sched, Doc(s.key, s.doc, TRUE))
              ELSE stopJobForConfig(Sched, s.key))
  /\ saves' = saves \ {s}
  /\ UNCHANGED <<store, configs, envKey, now, clear, boot, counts, calc>>

\* startScheduledJobs: the find resolves with the lean documents (line 94)
BootFind ==
  /\ boot.pc = "init"
  /\ boot' = [pc |-> "found",
              docs |-> {Doc(k, configs[k], configs[k].ranges) :
                          k \in {x \in Keys : configs[x].present
                                               /\ configs[x].autoRefresh}}]
  /\ UNCHANGED <<store, configs, envKey, runs, intervals, timers, timerSeq,
                 runHistory, now, callLog, saves, clear, counts, calc>>

\* startScheduledJobs after the await (line 95)
BootStart ==
  /\ boot.pc = "found"
  /\ SetSched(StartAll(Sched, boot.docs))
  /\ boot' = [pc |-> "up", docs |-> {}]
  /\ UNCHANGED <<store, configs, envKey, now, saves, clear, counts, calc>>

\* an armed interval timer fires: run()
TimerFire(t, limit) ==
  /\ t \in timers
  /\ counts.events < limit
  /\ SetSched(run(Sched, t.doc, "timer", t.id))
  /\ counts' = [counts EXCEPT !.events = @ + 1]
  /\ UNCHANGED <<store, configs, envKey, now, saves, clear, boot, calc>>

\* handleClearData up to its first await: stopAllJobs, then the first
\* deleteMany is issued (lines 7-15)
ClearStart ==
  /\ clear = 0
  /\ counts.events < MaxEvents
  /\ SetSched(stopAllJobs(Sched))
  /\ clear' = 1
  /\ counts' = [counts EXCEPT !.events = @ + 1]
  /\ UNCHANGED <<store, configs, envKey, now, saves, boot, calc>>

\* one deleteMany of handleClearData settles (lines 15-19); a failure
\* answers 500 and leaves the rest undeleted
ClearStep(outcomes) ==
  /\ clear \in 1..5
  /\ \E ok \in outcomes :
       IF ok
       THEN /\ store' = IF clear <= 4 THEN deleteMany(store, Kinds[clear]) ELSE store
            /\ configs' = IF clear = 5 THEN [k \in Keys |-> NoConfig] ELSE configs
            /\ clear' = IF clear = 5 THEN 0 ELSE clear + 1
       ELSE /\ UNCHANGED <<store, configs>>
            /\ clear' = 0
  /\ UNCHANGED <<envKey, runs, intervals, timers, timerSeq, runHistory, now,
                 callLog, saves, boot, counts, calc>>

\* time passes: one rate-limit window, or a millisecond more
Tick ==
  /\ counts.ticks < MaxTicks
  /\ \E d \in {WindowMs, WindowMs + 1} : now' = now + d
  /\ counts' = [counts EXCEPT !.ticks = @ + 1]
  /\ UNCHANGED <<store, configs, envKey, runs, intervals, timers, timerSeq,
                 runHistory, callLog, saves, clear, boot, calc>>

(***************************************************************************)
(* Specification of the on-demand import: requests one at a time.          *)
(***************************************************************************)
PriorStores ==
  {[k \in KindSet |-> IF k \in S THEN PriorSet(k) ELSE {}] :
     S \in {{}, {"recruiters", "clients"}, KindSet}}

NoCalc == [fn |-> "none"]

InitIdle ==
  /\ runs = <<>>
  /\ intervals = [k \in Keys |-> 0]
  /\ timers = {}
  /\ timerSeq = 0
  /\ runHistory = [k \in Keys |-> <<>>]
  /\ now = 0
  /\ callLog = [k \in Keys |-> <<>>]
  /\ saves = {}
  /\ clear = 0
  /\ boot = [pc |-> "init", docs |-> {}]
  /\ counts = [events |-> 0, ticks |-> 0]

InitScheduler == InitIdle /\ calc = NoCalc

InitImport ==
  /\ store \in PriorStores
  /\ configs = [k \in Keys |-> NoConfig]
  /\ envKey \in BOOLEAN
  /\ InitScheduler

ImportFetchSettled == \E r \in DOMAIN runs : FetchSettled(r, FetchInputs)

ImportStoreStep == \E r \in DOMAIN runs : StoreStep(r, BOOLEAN)

ImportPublishedSettled == \E r \in DOMAIN runs : PublishedSettled(r, CsvInputs)

NextImport ==
  \/ ImportRequest
  \/ PublishedRequest
  \/ ImportFetchSettled
  \/ ImportPublishedSettled
  \/ ImportStoreStep

SpecImport == InitImport /\ [][NextImport]_vars

(***************************************************************************)
(* Specification of the scheduler: a process that starts on persisted      *)
(* configurations, serves save and clear requests and follows every        *)
(* scheduled run to its end.                                               *)
(***************************************************************************)
\* a configuration saved by an earlier process; handleSaveConfig accepts a
\* body without ranges
Persisted(auto, withRanges) ==
  [present |-> TRUE, autoRefresh |-> auto, minutes |-> 6000, apiKey |-> TRUE,
   ranges |-> withRanges, lastRunAt |-> -1]

\* what the process finds at its start: k1 to be refreshed, k2 absent or not
\* to be refreshed
PersistedConfigs ==
  {c \in [Keys -> {NoConfig} \cup {Persisted(a, r) : a, r \in BOOLEAN}] :
     /\ c["k1"].present /\ c["k1"].autoRefresh
     /\ c["k2"].present => ~c["k2"].autoRefresh /\ c["k2"].ranges}

SaveInputs ==
  {[autoRefresh |-> a, minutes |-> <<>>, apiKey |-> TRUE, ranges |-> TRUE] :
     a \in BOOLEAN}

\* the scheduled spreadsheet has a Recruiters tab of one row and no other tab
OneTab ==
  {[t \in KindSet |->
      IF t = "recruiters"
      THEN [sa |-> "values", kr |-> "ok", data |-> Values(2, CanonHeader(t))]
      ELSE [sa |-> "throw", kr |-> "http", data |-> Values(0, {})]]}

Init ==
  /\ store = [k \in KindSet |-> {}]
  /\ configs \in PersistedConfigs
  /\ envKey = FALSE
  /\ InitScheduler

\* requests and timer fires arrive while no run and no save is in flight
Quiet == InFlight = {} /\ saves = {}

Save == Quiet /\ \E k \in Keys, in \in SaveInputs : SaveUpsert(k, in)

Apply == \E s \in saves : SaveApply(s)

Fire == Quiet /\ \E t \in timers : TimerFire(t, MaxEvents)

ClearDelete == ClearStep({TRUE})

RunFetchSettled == \E r \in DOMAIN runs : FetchSettled(r, OneTab)

RunStoreStep == \E r \in DOMAIN runs : StoreStep(r, {TRUE})

RunStampStep == \E r \in DOMAIN runs : StampStep(r, {TRUE})

Next ==
  \/ BootFind
  \/ BootStart
  \/ Save
  \/ Apply
  \/ Fire
  \/ ClearStart
  \/ ClearDelete
  \/ RunFetchSettled
  \/ RunStoreStep
  \/ RunStampStep

Spec == Init /\ [][Next]_vars

(***************************************************************************)
(* Specification of the rate limiter: one job, its timer firing while      *)
(* time passes; the imports it starts stay in flight.                      *)
(***************************************************************************)
InitRate ==
  /\ store = [k \in KindSet |-> {}]
  /\ configs = [k \in Keys |->
                  IF k = "k1"
                  THEN [present |-> TRUE, autoRefresh |-> TRUE, minutes |-> 5,
                        apiKey |-> TRUE, ranges |-> TRUE, lastRunAt |-> -1]
                  ELSE NoConfig]
  /\ envKey = FALSE
  /\ InitScheduler

FireRate == \E t \in timers : TimerFire(t, MaxCalls)

NextRate == BootFind \/ BootStart \/ FireRate \/ Tick

SpecRate == InitRate /\ [][NextRate]_vars

(***************************************************************************)
(* Specification of overlapping runs: two configurations are refreshed,    *)
(* and a timer may fire while earlier runs are still in flight.            *)
(***************************************************************************)
InitOverlap ==
  /\ store = [k \in KindSet |-> {}]
  /\ configs = [k \in Keys |-> Persisted(TRUE, TRUE)]
  /\ envKey = FALSE
  /\ InitScheduler

FireOverlap == \E t \in timers : TimerFire(t, MaxEvents)

NextOverlap ==
  \/ BootFind
  \/ BootStart
  \/ FireOverlap
  \/ RunFetchSettled
  \/ RunStoreStep
  \/ RunStampStep

SpecOverlap == InitOverlap /\ [][NextOverlap]_vars

(***************************************************************************)
(* parseRecruiters and the Recruiter schema.  A cell is a string, a row a  *)
(* sequence of cells; a cell the API left out is a position past the end   *)
(* of the row.                                                             *)
(***************************************************************************)
\* String(h).trim().toLowerCase() on the header cells used here
Lower(h) ==
  CASE h = "Name" -> "name"
    [] h = " Email " -> "email"
    [] h = "Email" -> "email"
    [] h = "Hired" -> "hired"
    [] h = "Status" -> "status"
    [] h = "Trend" -> "trend"
    [] h = "Phone" -> "phone"
    [] h = "Department" -> "department"
    [] h = "Territory" -> "territory"
    [] h = "Join Date" -> "join date"
    [] h = "Location" -> "location"

\* the characters of the cells that reach parseNum
Chars(v) ==
  CASE v = "0" -> <<"0">>
    [] v = "7" -> <<"7">>
    [] v = "n/a" -> <<"n", "/", "a">>
    [] v = "1,200" -> <<"1", ",", "2", "0", "0">>
    [] v = "7-8" -> <<"7", "-", "8">>

Digits == {"0", "1", "2", "7", "8"}

DigitValue(c) ==
  CASE c = "0" -> 0 [] c = "1" -> 1 [] c = "2" -> 2 [] c = "7" -> 7 [] c = "8" -> 8

\* replace(/[^0-9.-]+/g, ''): the characters that stay
NumericChars(cs) == SelectSeq(cs, LAMBDA c : c \in Digits \cup {".", "-"})

RECURSIVE Decimal(_)
Decimal(cs) ==
  IF cs = <<>> THEN 0
  ELSE 10 * Decimal(SubSeq(cs, 1, Len(cs) - 1)) + DigitValue(cs[Len(cs)])

\* Number(text) || 0 for a text of digits and minus signs: NaN becomes 0
NumberOrZero(cs) ==
  IF cs # <<>> /\ \A i \in DOMAIN cs : cs[i] \in Digits THEN Decimal(cs)
  ELSE IF Len(cs) > 1 /\ cs[1] = "-" /\ \A i \in 2..Len(cs) : cs[i] \in Digits
       THEN 0 - Decimal(Tail(cs))
  ELSE 0

\* parseNum (line 497)
parseNum(v) == IF v = "" THEN 0 ELSE NumberOrZero(NumericChars(Chars(v)))

\* a || b on strings
Or(a, b) == IF a # "" THEN a ELSE b

\* row[i] || '' with the positions counted from 1
Cell(row, i) == IF i \in DOMAIN row THEN row[i] ELSE ""

\* byName[h] (lines 499-500): the cell under the last column whose
\* normalised header is h; '' for a missing cell, nothing for a missing column
byName(header, row, h) ==
  LET cols == {i \in DOMAIN header : Lower(header[i]) = h}
  IN IF cols = {} THEN ""
     ELSE Cell(row, CHOOSE i \in cols : \A j \in cols : j <= i)

RECURSIVE FirstNamed(_, _, _)
FirstNamed(header, row, names) ==
  IF names = <<>> THEN ""
  ELSE Or(byName(header, row, Head(names)), FirstNamed(header, row, Tail(names)))

TextFields ==
  {"name", "email", "phone", "department", "territory", "joinDate",
   "reportingManager", "remarks", "backendCallingsRemarks",
   "recruiterBackendCallings", "status", "trend", "location"}

\* the header names a field is read from (lines 502-515)
Aliases(f) ==
  CASE f = "name" -> <<"name", "full name", "recruiter">>
    [] f = "email" -> <<"email", "email id">>
    [] f = "phone" -> <<"phone", "contact number">>
    [] f = "department" -> <<"department">>
    [] f = "territory" -> <<"territory", "locations">>
    [] f = "hired" -> <<"hired", "total hired", "hires">>
    [] f = "joinDate" -> <<"joindate", "join date", "start date", "doj">>
    [] f = "reportingManager" -> <<"reporting manager", "reportingmanager">>
    [] f = "remarks" -> <<"remarks">>
    [] f = "backendCallingsRemarks" ->
         <<"backend callings remarks", "backendcallingsremarks">>
    [] f = "recruiterBackendCallings" ->
         <<"recruiter backend callings", "recruiterbackendcallings">>
    [] f = "status" -> <<"status">>
    [] f = "trend" -> <<"trend">>
    [] f = "location" -> <<"location">>

\* the column a field falls back to, counted from 1 (0: none)
Position(f) ==
  CASE f = "name" -> 1 [] f = "email" -> 2 [] f = "phone" -> 3
    [] f = "department" -> 4 [] f = "territory" -> 5 [] f = "hired" -> 6
    [] f = "joinDate" -> 7 [] f = "status" -> 8 [] f = "trend" -> 9
    [] f = "location" -> 10 [] OTHER -> 0

\* the value of a field that nothing in the sheet supplies
Default(f) ==
  CASE f = "status" -> "active" [] f = "trend" -> "up" [] f = "hired" -> "0"
    [] OTHER -> ""

\* the text a field is given: its aliases, then its position, then its default
FieldText(header, row, f) ==
  Or(FirstNamed(header, row, Aliases(f)),
     Or(IF Position(f) = 0 THEN "" ELSE Cell(row, Position(f)), Default(f)))

\* one row of parseRecruiters (lines 498-516)
parseRecruiterRow(header, row) ==
  [f \in TextFields \cup {"hired"} |->
     IF f = "hired" THEN parseNum(FieldText(header, row, f))
     ELSE FieldText(header, row, f)]

\* parseRecruiters (lines 493-518)
parseRecruiters(values) ==
  IF Len(values) < 2 THEN <<>>
  ELSE [i \in 1..(Len(values) - 1) |-> parseRecruiterRow(values[1], values[i + 1])]

\* RecruiterSchema's validators: name is required, status and trend are enums
RecruiterValid(rec) ==
  /\ rec.name # ""
  /\ rec.status \in {"active", "inactive", "pending"}
  /\ rec.trend \in {"up", "down"}

\* Recruiter.insertMany(recs): every document is validated first and a
\* failing one rejects the call with nothing written
insertRecruiters(recs) ==
  IF \A i \in DOMAIN recs : RecruiterValid(recs[i])
  THEN [ok |-> TRUE, docs |-> {recs[i] : i \in DOMAIN recs}]
  ELSE [ok |-> FALSE, docs |-> {}]

ShortHeader == <<"Name", " Email ", "Hired", "Status">>

FullHeader ==
  <<"Name", "Email", "Phone", "Department", "Territory", "Hired", "Join Date",
    "Status", "Trend", "Location">>

\* rows under the short header, the trailing cells the API leaves out included
ShortRows ==
  LET full == {<<n, e, h, s>> : n \in {"", "Jane"}, e \in {"", "jane@x.com"},
                               h \in {"", "7", "n/a", "1,200", "7-8"},
                               s \in {"", "active", "on leave"}}
  IN {SubSeq(r, 1, n) : r \in full, n \in 0..4}

\* rows under the full header
FullRows ==
  {<<n, "jane@x.com", "555", "Sales", "North", h, "2024-01-01", s, t, "Pune">> :
     n \in {"", "Jane"}, h \in {"7", "n/a"},
     s \in {"pending", "on leave"}, t \in {"down", "sideways"}}

Sheets ==
  {<<ShortHeader, r>> : r \in ShortRows} \cup {<<FullHeader, r>> : r \in FullRows}

PureUnchanged ==
  /\ UNCHANGED <<store, configs, envKey, runs, now, counts>>
  /\ SchedUnchanged

\* importSheetsAndSave on a Recruiters tab: the rows are parsed (line 660)
ParseRows ==
  /\ calc.fn = "parseRecruiters"
  /\ calc.stage = "sheet"
  /\ calc' = [calc EXCEPT !.stage = "parsed",
                          !.recs = parseRecruiters(calc.values)]
  /\ PureUnchanged

\* the persistence step on the parsed rows (lines 666-678): delete, then
\* insert when there are rows; a rejected insertMany is caught
PersistRows ==
  /\ calc.fn = "parseRecruiters"
  /\ calc.stage = "parsed"
  /\ LET ins == insertRecruiters(calc.recs)
     IN calc' = [calc EXCEPT !.stage = "stored",
                             !.stored = ins.docs,
                             !.dbFailed = ~ins.ok]
  /\ PureUnchanged

InitParse ==
  /\ store = [k \in KindSet |-> {}]
  /\ configs = [k \in Keys |-> NoConfig]
  /\ envKey = FALSE
  /\ InitIdle
  /\ \E v \in Sheets :
       calc = [fn |-> "parseRecruiters", stage |-> "sheet", values |-> v,
               recs |-> <<>>, stored |-> {}, dbFailed |-> FALSE]

NextParse == ParseRows \/ PersistRows

SpecParse == InitParse /\ [][NextParse]_vars

(***************************************************************************)
(* parseCsvToObjects, on the server (importPublishedAndSave) and in the    *)
(* client (dataService).  A text is a sequence of characters.              *)
(***************************************************************************)
MaxLen == 2

DQ == "\""
LF == "\n"
CR == "\r"
Comma == ","

\* the first loop: the text is cut into lines at the newlines outside
\* quotes.  A doubled quote leaves one quote; the server keeps a single
\* quote in the line, the client drops it.
RECURSIVE splitLines(_, _, _, _, _, _)
splitLines(side, csv, i, cur, inQuotes, lines) ==
  IF i > Len(csv) THEN IF cur # <<>> THEN Append(lines, cur) ELSE lines
  ELSE IF csv[i] = DQ
  THEN IF i + 1 <= Len(csv) /\ csv[i + 1] = DQ
       THEN splitLines(side, csv, i + 2, Append(cur, DQ), inQuotes, lines)
       ELSE splitLines(side, csv, i + 1,
                       IF side = "server" THEN Append(cur, DQ) ELSE cur,
                       ~inQuotes, lines)
  ELSE IF csv[i] = CR
  THEN splitLines(side, csv, i + 1, cur, inQuotes, lines)
  ELSE IF csv[i] = LF /\ ~inQuotes
  THEN splitLines(side, csv, i + 1, <<>>, inQuotes, Append(lines, cur))
  ELSE splitLines(side, csv, i + 1, Append(cur, csv[i]), inQuotes, lines)

Whitespace == {" ", LF, CR}

\* String.prototype.trim
RECURSIVE trim(_)
trim(s) ==
  IF s = <<>> THEN s
  ELSE IF s[1] \in Whitespace THEN trim(Tail(s))
  ELSE IF s[Len(s)] \in Whitespace THEN trim(SubSeq(s, 1, Len(s) - 1))
  ELSE s

\* s.replace(/^"|"$/g, ''): one quote off the front, one off the end
stripQuotes(s) ==
  LET front == IF s # <<>> /\ s[1] = DQ THEN Tail(s) ELSE s
  IN IF front # <<>> /\ front[Len(front)] = DQ
     THEN SubSeq(front, 1, Len(front) - 1)
     ELSE front

\* the loop of splitCsv: the line is cut at the commas outside quotes
RECURSIVE splitCols(_, _, _, _, _)
splitCols(line, i, field, inside, cols) ==
  IF i > Len(line) THEN Append(cols, field)
  ELSE IF line[i] = DQ
  THEN IF inside /\ i + 1 <= Len(line) /\ line[i + 1] = DQ
       THEN splitCols(line, i + 2, Append(field, DQ), inside, cols)
       ELSE splitCols(line, i + 1, field, ~inside, cols)
  ELSE IF line[i] = Comma /\ ~inside
  THEN splitCols(line, i + 1, <<>>, inside, Append(cols, field))
  ELSE splitCols(line, i + 1, Append(field, line[i]), inside, cols)

splitCsv(line) ==
  LET cols == splitCols(line, 1, <<>>, FALSE, <<>>)
  IN [j \in DOMAIN cols |-> trim(stripQuotes(cols[j]))]

\* the object built for one line: header name -> column, a later column
\* of the same name overwriting an earlier one, '' for a missing column
rowObject(header, cols) ==
  [h \in {header[j] : j \in DOMAIN header} |->
     LET j == CHOOSE j \in DOMAIN header :
                /\ header[j] = h
                /\ \A l \in DOMAIN header : header[l] = h => l <= j
     IN IF j \in DOMAIN cols THEN cols[j] ELSE <<>>]

\* parseCsvToObjects: the objects of the non-blank lines after the first
parseCsvToObjects(side, csv) ==
  LET lines == splitLines(side, csv, 1, <<>>, FALSE, <<>>)
  IN IF lines = <<>> THEN <<>>
     ELSE LET header == [j \in DOMAIN splitCsv(lines[1]) |->
                           trim(splitCsv(lines[1])[j])]
              kept == SelectSeq(Tail(lines), LAMBDA l : trim(l) # <<>>)
          IN [i \in DOMAIN kept |-> rowObject(header, splitCsv(kept[i]))]

\* RFC 4180: a field holding a comma, a quote or a line break is enclosed
\* in quotes, its quotes doubled; fields are joined by commas and every
\* record ends in CR LF
RECURSIVE doubleQuotes(_)
doubleQuotes(s) ==
  IF s = <<>> THEN <<>>
  ELSE (IF Head(s) = DQ THEN <<DQ, DQ>> ELSE <<Head(s)>>) \o doubleQuotes(Tail(s))

serializeField(s) ==
  IF \E i \in DOMAIN s : s[i] \in {Comma, DQ, LF, CR}
  THEN <<DQ>> \o doubleQuotes(s) \o <<DQ>>
  ELSE s

RECURSIVE serializeRecord(_)
serializeRecord(fields) ==
  IF Len(fields) = 1 THEN serializeField(fields[1]) \o <<CR, LF>>
  ELSE serializeField(Head(fields)) \o <<Comma>> \o serializeRecord(Tail(fields))

serializeAsCsv(H, R) == serializeRecord(H) \o serializeRecord(R)

CsvChars == {"a", " ", Comma, DQ, LF}

Texts == UNION {[1..n -> CsvChars] : n \in 0..MaxLen}

CsvHeader == <<<<"x">>, <<"y">>>>

CsvRows == {<<u, v>> : u \in Texts, v \in Texts}

\* a published CSV body reaches parseCsvToObjects (server: line 851;
\* client: fetchPublishedCsv)
ParseCsv ==
  /\ calc.fn = "parseCsvToObjects"
  /\ calc.stage = "text"
  /\ calc' = [calc EXCEPT !.stage = "parsed",
                          !.out = parseCsvToObjects(calc.side, calc.csv)]
  /\ PureUnchanged

InitCsv ==
  /\ store = [k \in KindSet |-> {}]
  /\ configs = [k \in Keys |-> NoConfig]
  /\ envKey = FALSE
  /\ InitIdle
  /\ \E side \in {"server", "client"} : \E R \in CsvRows :
       calc = [fn |-> "parseCsvToObjects", stage |-> "text", side |-> side,
               H |-> CsvHeader, R |-> R, csv |-> serializeAsCsv(CsvHeader, R),
               out |-> <<>>]

NextCsv == ParseCsv

SpecCsv == InitCsv /\ [][NextCsv]_vars

(***************************************************************************)
(* fetchSheet and tryFetchCsv step by step: each action is the part of the *)
(* function that runs when the request it awaits has settled.              *)
(***************************************************************************)
\* what the service-account path does: it returns the values, returns null
\* (no credentials, or the token exchange failed), or its values request
\* fails; and what the key request answers
SheetInputs ==
  {[sa |-> s, kr |-> k, rows |-> n, cfgKey |-> c, env |-> e] :
     s \in {"values", "absent", "authfail", "reqfail"}, k \in {"ok", "http"},
     n \in 0..(MaxRows + 1), c \in BOOLEAN, e \in BOOLEAN}

\* the same input as the import runs see it
AsTabInput(in) ==
  [sa |-> CASE in.sa = "values" -> "values"
            [] in.sa = "reqfail" -> "throw"
            [] OTHER -> "null",
   kr |-> in.kr, data |-> Values(in.rows, {})]

\* fetchSheet resumed after the service-account fetch and sending a key
\* request whatever that fetch gave
tryKeyRegardless(c) ==
  [c EXCEPT !.pc = "key", !.calls = Append(@, "apiKey")]

\* fetchSheet resumes after the service-account fetch (lines 484-490): its
\* values are returned; without them the key is looked up, and either the
\* configuration error is raised or the key request is sent
afterServiceAccount(c) ==
  IF c.in.sa = "values"
  THEN [c EXCEPT !.pc = "returned", !.rows = c.in.rows]
  ELSE IF ~(c.in.cfgKey \/ c.in.env)
  THEN [c EXCEPT !.pc = "raised", !.err = "config"]
  ELSE [c EXCEPT !.pc = "key", !.calls = Append(@, "apiKey")]

\* fetchSheetViaApiKey resumes with the response (lines 477-478)
afterApiKey(c) ==
  IF c.in.kr = "ok"
  THEN [c EXCEPT !.pc = "returned", !.rows = c.in.rows]
  ELSE [c EXCEPT !.pc = "raised", !.err = "http"]

\* fetchSheet is called: the service-account fetch comes first (line 483)
FetchStart ==
  /\ calc.fn = "fetchSheet"
  /\ calc.pc = "start"
  /\ calc' = [calc EXCEPT !.pc = "sa", !.calls = Append(@, "serviceAccount")]
  /\ PureUnchanged

ServiceAccountSettled ==
  /\ calc.fn = "fetchSheet"
  /\ calc.pc = "sa"
  /\ calc' = afterServiceAccount(calc)
  /\ PureUnchanged

ApiKeySettled ==
  /\ calc.fn = "fetchSheet"
  /\ calc.pc = "key"
  /\ calc' = afterApiKey(calc)
  /\ PureUnchanged

\* the URL shapes of tryFetchCsv in the order they are pushed (lines
\* 688-691); the export by gid only when a gid was given
tryUrls(gid) ==
  (IF gid THEN <<"exportByGid">> ELSE <<>>)
    \o <<"exportBySheet", "gvizBySheet", "exportWhole">>

\* what one URL answers: a 2xx body with a comma or newline, a 2xx body
\* without, a non-2xx status, or the request throws
CsvOutcomes == {"csv", "nodelimiter", "non2xx", "throws"}

CsvFetchInputs ==
  {[gid |-> g, answers |-> a] :
     g \in BOOLEAN,
     a \in [{"exportByGid", "exportBySheet", "gvizBySheet", "exportWhole"}
              -> CsvOutcomes]}

\* the loop of tryFetchCsv without its try / catch
afterAttemptUncaught(c) ==
  LET url == c.urls[Len(c.attempts)]
  IN IF c.in.answers[url] = "csv"
     THEN [c EXCEPT !.pc = "returned", !.text = url]
     ELSE IF c.in.answers[url] = "throws"
     THEN [c EXCEPT !.pc = "raised"]
     ELSE IF Len(c.attempts) < Len(c.urls)
     THEN [c EXCEPT !.attempts = Append(@, c.urls[Len(c.attempts) + 1])]
     ELSE [c EXCEPT !.pc = "returned", !.text = "null"]

\* the fetch of the current URL has settled (lines 693-702): its body is
\* returned when it is 2xx and has a comma or a newline, else the next URL
\* is fetched, and null is returned after the last
afterAttempt(c) ==
  LET url == c.urls[Len(c.attempts)]
  IN IF c.in.answers[url] = "csv"
     THEN [c EXCEPT !.pc = "returned", !.text = url]
     ELSE IF Len(c.attempts) < Len(c.urls)
     THEN [c EXCEPT !.attempts = Append(@, c.urls[Len(c.attempts) + 1])]
     ELSE [c EXCEPT !.pc = "returned", !.text = "null"]

\* tryFetchCsv is called: the URLs are listed and the first is fetched
CsvStart ==
  /\ calc.fn = "tryFetchCsv"
  /\ calc.pc = "start"
  /\ calc' = [calc EXCEPT !.pc = "fetch",
                          !.urls = tryUrls(calc.in.gid),
                          !.attempts = <<tryUrls(calc.in.gid)[1]>>]
  /\ PureUnchanged

CsvAttemptSettled ==
  /\ calc.fn = "tryFetchCsv"
  /\ calc.pc = "fetch"
  /\ calc' = afterAttempt(calc)
  /\ PureUnchanged

InitFetch ==
  /\ store = [k \in KindSet |-> {}]
  /\ configs = [k \in Keys |-> NoConfig]
  /\ envKey = FALSE
  /\ InitIdle
  /\ \/ \E in \in SheetInputs :
          calc = [fn |-> "fetchSheet", in |-> in, pc |-> "start",
                  calls |-> <<>>, rows |-> 0, err |-> ""]
     \/ \E in \in CsvFetchInputs :
          calc = [fn |-> "tryFetchCsv", in |-> in, pc |-> "start",
                  urls |-> <<>>, attempts |-> <<>>, text |-> "pending"]

NextFetch ==
  \/ FetchStart
  \/ ServiceAccountSettled
  \/ ApiKeySettled
  \/ CsvStart
  \/ CsvAttemptSettled

SpecFetch == InitFetch /\ [][NextFetch]_vars

(***************************************************************************)
(* Sheet-type inference on its own: a response with any mix of keywords    *)
(* in its header row.                                                      *)
(***************************************************************************)
InferInputs ==
  {Values(n, h) :
     n \in 0..(MaxRows + 1),
     h \in SUBSET {"name", "client", "industry", "avgdaystofill",
                   "avg daystofill", "hired", "target"}}

\* importSheetsAndSave applies inferType to a fetched tab (lines 618-621),
\* importPublishedAndSave applies inferRowsType to its rows (860-863)
InferKind ==
  /\ calc.fn = "inferType"
  /\ calc.kind = "pending"
  /\ calc' = [calc EXCEPT !.kind = inferType(calc.resp),
                          !.rowsKind = inferRowsType(calc.resp)]
  /\ PureUnchanged

InitInfer ==
  /\ store = [k \in KindSet |-> {}]
  /\ configs = [k \in Keys |-> NoConfig]
  /\ envKey = FALSE
  /\ InitIdle
  /\ \E resp \in InferInputs :
       calc = [fn |-> "inferType", resp |-> resp, kind |-> "pending",
               rowsKind |-> "pending"]

SpecInfer == InitInfer /\ [][InferKind]_vars

(***************************************************************************)
(* Specification of the save requests for one key: after startup,         *)
(* requests with any interval arrive while earlier ones are still awaiting *)
(* their upsert, and the timer fires once the requests are answered.       *)
(***************************************************************************)
\* refreshIntervalMinutes in hundredths of a minute: absent, 0.03, 5, and
\* 43200 minutes (30 days)
IntervalInputs ==
  {[autoRefresh |-> a, minutes |-> m, apiKey |-> TRUE, ranges |-> TRUE] :
     a \in BOOLEAN, m \in {<<>>, <<3>>, <<500>>, <<4320000>>}}

SaveNow ==
  /\ boot.pc = "up"
  /\ \E in \in IntervalInputs : SaveUpsert("k1", in)

\* the timers fire between the requests
FireSettled == saves = {} /\ FireRate

NextSaves == BootFind \/ BootStart \/ SaveNow \/ Apply \/ FireSettled

SpecSaves == InitRate /\ [][NextSaves]_vars

(***************************************************************************)
(* Properties of the on-demand import (SpecImport).                        *)
(***************************************************************************)
\* an on-demand run that returned with every store operation settled well
RunPersisted(r) ==
  /\ runs[r].origin = "demand"
  /\ runs[r].src = "request"
  /\ runs[r].pc = "done"
  /\ ~runs[r].dbFailed

\* the tab of kind k produced no record while the three others did
OnlyEmpty(r, k) ==
  /\ runs[r].parsed[k] = {}
  /\ \A j \in KindSet \ {k} : runs[r].parsed[j] # {}

\* C1: when a run obtains no row for exactly one kind and rows for the three
\* others, the store of that kind is what it was before the run and the
\* stores of the three others hold exactly the newly parsed records.
C1_EmptyTabKeepsPrior ==
  \A r \in DOMAIN runs : \A k \in KindSet :
    RunPersisted(r) /\ OnlyEmpty(r, k) =>
      /\ store[k] = runs[r].before[k]
      /\ \A j \in KindSet \ {k} : store[j] = runs[r].parsed[j]

\* every fetched tab came back with data rows
AllTabsHaveRows(r) ==
  \A t \in KindSet : runs[r].res[t].ok /\ runs[r].res[t].len >= 2

\* C2: after a single run without persistence failure in which every tab
\* returned rows, each kind's store holds exactly the records the run parsed
\* for it and no record of an earlier import.
C2_ReplaceSemantics ==
  \A r \in DOMAIN runs :
    RunPersisted(r) /\ AllTabsHaveRows(r) =>
      \A k \in KindSet :
        /\ store[k] = runs[r].parsed[k]
        /\ store[k] \cap runs[r].before[k] = {}

C2_Witness ==
  \E r \in DOMAIN runs :
    /\ RunPersisted(r)
    /\ AllTabsHaveRows(r)
    /\ \A k \in KindSet : runs[r].before[k] # {} /\ store[k] # {}

\* C5: whatever subset of the four fetches fails, the rows of every tab that
\* was fetched are parsed, returned and persisted under some kind.
C5_FetchedTabsSurvive ==
  \A r \in DOMAIN runs :
    RunPersisted(r) =>
      \A t \in KindSet :
        runs[r].res[t].ok /\ runs[r].res[t].len >= 2 =>
          \E k \in KindSet :
            /\ parseRows(r, t, runs[r].res[t]) # {}
            /\ parseRows(r, t, runs[r].res[t]) \subseteq runs[r].parsed[k]
            /\ parseRows(r, t, runs[r].res[t]) \subseteq store[k]

\* C6: a run in which a deleteMany or an insertMany failed does not raise;
\* it returns the four sets it parsed from what it fetched.
C6_StoreFailureReturns ==
  \A r \in DOMAIN runs :
    runs[r].dbFailed =>
      /\ runs[r].ret = "value"
      /\ runs[r].pc = "done"
      /\ runs[r].parsed = IF runs[r].src = "published"
                           THEN RoutePublished(r, runs[r].res)
                           ELSE Route(r, runs[r].res)

C6_Witness ==
  \E r \in DOMAIN runs :
    /\ runs[r].dbFailed
    /\ runs[r].ret = "value"
    /\ \E k \in KindSet : runs[r].parsed[k] # {} /\ store[k] # runs[r].parsed[k]

(***************************************************************************)
(* Properties of the rate limiter (SpecRate).  The times at which a timer  *)
(* fires are left open: any number of fires may fall between two ticks.    *)
(***************************************************************************)
\* the calls of run() before call i of key k that invoked the orchestrator
\* and lie in the window that ends at call i
InvokedInWindow(k, i) ==
  {j \in 1..(i - 1) :
     /\ callLog[k][j].out = "invoked"
     /\ callLog[k][j].t >= callLog[k][i].t - WindowMs}

\* calls i .. i+n-1 of key k fall in one window that no earlier invocation
\* reaches into
OneFreshWindow(k, i, n) ==
  /\ i + n - 1 <= Len(callLog[k])
  /\ callLog[k][i + n - 1].t - callLog[k][i].t <= WindowMs
  /\ InvokedInWindow(k, i) = {}

Outcomes(k, i, n, out) ==
  Cardinality({j \in i..(i + n - 1) : callLog[k][j].out = out})

\* C3: a call of run() invokes the orchestrator exactly when fewer than
\* MAX_IMPORTS_PER_MINUTE invocations lie in the 60-second window behind it,
\* so no window holds more than 20 invocations and every further call is
\* skipped; 25 calls in one window give 20 invocations and 5 skips.
C3_RateLimit ==
  \A k \in Keys :
    /\ \A i \in DOMAIN callLog[k] :
         /\ callLog[k][i].out = "invoked"
              <=> Cardinality(InvokedInWindow(k, i)) < MAX_IMPORTS_PER_MINUTE
         /\ Cardinality(InvokedInWindow(k, i)) <= MAX_IMPORTS_PER_MINUTE
    /\ \A i \in DOMAIN callLog[k] :
         OneFreshWindow(k, i, 25) =>
           /\ Outcomes(k, i, 25, "invoked") = 20
           /\ Outcomes(k, i, 25, "skipped") = 5

C3_Witness ==
  \E k \in Keys : \E i \in DOMAIN callLog[k] :
    /\ OneFreshWindow(k, i, 25)
    /\ callLog[k][i + 24].src = "timer"
    /\ callLog[k][i + 24].out = "skipped"
    /\ Outcomes(k, i, 25, "invoked") = 20

(***************************************************************************)
(* Properties of the scheduler (Spec).                                     *)
(***************************************************************************)
\* C4: every scheduled run that was not skipped has, once it is finished,
\* performed the lastRunAt update, whether the import returned or raised.
C4_FinishedRunStamped ==
  \A r \in DOMAIN runs :
    runs[r].origin = "sched" /\ runs[r].pc = "done" => runs[r].stamped

ActiveTimers(k) == {t \in timers : t.doc.key = k}

\* the intervals map holds exactly the active timers, one per key at most
TimersMatchMap ==
  \A k \in Keys :
    /\ Cardinality(ActiveTimers(k)) <= 1
    /\ intervals[k] = 0 <=> ActiveTimers(k) = {}
    /\ \A t \in ActiveTimers(k) : t.id = intervals[k]

\* a saveSheetsConfig of this step applied a document of key k with the
\* given autoRefresh
SaveApplied(k, auto) ==
  \E s \in saves : s \notin saves' /\ s.key = k /\ s.doc.autoRefresh = auto

ImmediateRun(k) ==
  /\ Len(callLog'[k]) = Len(callLog[k]) + 1
  /\ callLog'[k][Len(callLog'[k])].src = "immediate"

\* C7: in every state reached each key has at most one active timer and the
\* intervals map holds exactly the active timers; a save with autoRefresh
\* on a running key removes the old timer, arms a new one, makes one
\* immediate run and leaves the key running.
C7_OneTimerPerKey ==
  [][/\ TimersMatchMap'
     /\ \A k \in Keys :
          SaveApplied(k, TRUE) /\ intervals[k] # 0 =>
            /\ ActiveTimers(k) \cap timers' = {}
            /\ intervals'[k] \notin {0, intervals[k]}
            /\ \E t \in timers' : t.id = intervals'[k] /\ t.doc.key = k
            /\ ImmediateRun(k)]_vars

C7_Witness ==
  \E k \in Keys :
    /\ boot.pc = "up" /\ saves = {} /\ counts.events = 1
    /\ Len(callLog[k]) = 2
    /\ callLog[k][1].src = "immediate" /\ callLog[k][2].src = "immediate"
    /\ Cardinality(ActiveTimers(k)) = 1
    /\ timerSeq = 2

\* C8: when a save with autoRefresh=false completes for a key, the key has
\* no timer and no rate-limit history, and the timers and history of every
\* other key are what they were.
C8_SaveOffStops ==
  [][\A k \in Keys :
       SaveApplied(k, FALSE) =>
         /\ intervals'[k] = 0
         /\ \A t \in timers' : t.doc.key # k
         /\ runHistory'[k] = <<>>
         /\ \A o \in Keys \ {k} :
              /\ intervals'[o] = intervals[o]
              /\ runHistory'[o] = runHistory[o]
              /\ \A t \in timers : t.doc.key = o => t \in timers']_vars

C8_Witness ==
  \E k \in Keys :
    /\ boot.pc = "up" /\ saves = {} /\ clear = 0 /\ counts.events = 1
    /\ configs[k].present /\ ~configs[k].autoRefresh
    /\ callLog[k] # <<>>
    /\ intervals[k] = 0 /\ ActiveTimers(k) = {} /\ runHistory[k] = <<>>

\* a call of run() of this step came from a timer of key k
TimerCall(k) ==
  /\ Len(callLog'[k]) > Len(callLog[k])
  /\ callLog'[k][Len(callLog'[k])].src = "timer"

\* C9: when stopAllJobs returns no key has a timer or rate-limit history;
\* a timer fires only for a key that has a timer, and a key gets a timer
\* only from a save with autoRefresh or from startScheduledJobs.
C9_StopAllIsQuiet ==
  [][/\ clear = 0 /\ clear' = 1 =>
          /\ timers' = {}
          /\ \A k \in Keys : intervals'[k] = 0 /\ runHistory'[k] = <<>>
     /\ \A k \in Keys :
          /\ TimerCall(k) => intervals[k] # 0 /\ ActiveTimers(k) # {}
          /\ ActiveTimers(k) = {} /\ (\E t \in timers' : t.doc.key = k) =>
               \/ SaveApplied(k, TRUE)
               \/ boot.pc = "found" /\ boot'.pc = "up"]_vars

C9_Witness ==
  /\ boot.pc = "up" /\ counts.events = 1 /\ clear \in 1..5
  /\ timers = {}
  /\ \A k \in Keys : intervals[k] = 0 /\ runHistory[k] = <<>>
  /\ \E k \in Keys : callLog[k] # <<>>

\* C10: when startScheduledJobs completes on a process without timers, with
\* no save or clear request in flight, the keys with an active timer are
\* the persisted configurations with autoRefresh, each given an immediate run.
C10_StartupRederives ==
  [][/\ boot.pc = "found" /\ boot'.pc = "up"
     /\ timers = {}
     /\ saves' = {} /\ clear' = 0
     => /\ {k \in Keys : intervals'[k] # 0}
             = {k \in Keys : configs'[k].present /\ configs'[k].autoRefresh}
        /\ \A k \in Keys : intervals'[k] # 0 => ImmediateRun(k)]_vars

\* C15: once startup is over and no save or clear request is in flight,
\* every key with an active timer has a persisted configuration.
C15_NoOrphanedSchedule ==
  boot.pc = "up" /\ saves = {} /\ clear = 0
    => \A k \in Keys : ActiveTimers(k) # {} => configs[k].present

(***************************************************************************)
(* Properties of an import without any access to the Sheets API            *)
(* (SpecImport).                                                           *)
(***************************************************************************)
\* run r is a finished on-demand import for which no tab could be fetched
\* and no API key was available: every fetchSheet raised the
\* configuration error
NoAccess(r) ==
  /\ runs[r].origin = "demand"
  /\ runs[r].src = "request"
  /\ runs[r].pc = "done"
  /\ ~runs[r].hasKey
  /\ \A k \in KindSet : ~runs[r].res[k].ok

\* C12: with no service credential and no API key for any tab,
\* importSheetsAndSave raises a configuration error to its caller instead
\* of returning a result.
C12_ConfigErrorSurfaced ==
  \A r \in DOMAIN runs :
    NoAccess(r) => runs[r].ret = "raised" /\ runs[r].err = "config"

\* C13: with no service credential and no API key, an on-demand import
\* request is served by the published-export strategy:
\* importPublishedAndSave has been invoked by the time the credentialed /
\* key path has finished.
C13_PublishedFallbackTaken ==
  \A r \in DOMAIN runs :
    NoAccess(r) => \E p \in DOMAIN runs : runs[p].src = "published"

(***************************************************************************)
(* Properties of overlapping runs (SpecOverlap).                           *)
(***************************************************************************)
\* run r has executed its first deleteMany and not yet its last insertMany
InsideReplace(r) ==
  \/ runs[r].pc = "ins"
  \/ runs[r].pc = "del" /\ runs[r].at > 1

\* this step executes a deleteMany or an insertMany of run r
StoreOpBy(r) ==
  /\ runs[r].pc \in {"del", "ins"}
  /\ runs'[r] # runs[r]

\* C11: no deleteMany / insertMany of a run executes between the first
\* deleteMany and the last insertMany of another run of the same
\* configuration.
C11_NoInterleavedReplace ==
  [][\A r1, r2 \in DOMAIN runs :
       r1 # r2 /\ runs[r1].key = runs[r2].key /\ InsideReplace(r1)
         => ~StoreOpBy(r2)]_vars

\* C14: a store operation of a run for one configuration leaves every
\* record stored by a run for another configuration in place.
C14_IndependentRecordSets ==
  [][\A r \in DOMAIN runs :
       StoreOpBy(r) =>
         \A k \in KindSet : \A rec \in store[k] :
           rec.run \in DOMAIN runs /\ runs[rec.run].key # runs[r].key
             => rec \in store'[k]]_vars

(***************************************************************************)
(* Properties of the row mapping (SpecParse).                              *)
(***************************************************************************)
\* C16: whatever the row holds (absent cells, unparsable numbers, an empty
\* name, an unrecognised status or trend), it is mapped to a record and the
\* record is persisted by the store-replace step, without an error.
C16_EveryRowPersisted ==
  calc.fn = "parseRecruiters" /\ calc.stage = "stored"
    => /\ Len(calc.recs) = 1
       /\ calc.recs[1] \in calc.stored
       /\ ~calc.dbFailed

JaneSheet == <<ShortHeader, <<"Jane", "jane@x.com", "7", "active">>>>

JaneRecord ==
  [f \in TextFields \cup {"hired"} |->
     CASE f = "name" -> "Jane" [] f = "email" -> "jane@x.com"
       [] f = "status" -> "active" [] f = "trend" -> "up"
       [] f = "hired" -> 7 [] OTHER -> ""]

\* no column of the header is one of the field's names
Unnamed(header, f) ==
  \A i \in DOMAIN header : \A j \in DOMAIN Aliases(f) : Lower(header[i]) # Aliases(f)[j]

\* C18: the Name/Email/Hired/Status sheet with the row Jane, jane@x.com, 7,
\* active maps to name Jane, that email, hired 7, status active and every
\* other field at its default; in general a text field none of whose names
\* is in the header is at its default.
C18_AbsentFieldsDefault ==
  calc.fn = "parseRecruiters" /\ calc.stage # "sheet"
    => /\ calc.values = JaneSheet => calc.recs = <<JaneRecord>>
       /\ \A f \in TextFields :
            Unnamed(calc.values[1], f) => calc.recs[1][f] = Default(f)

(***************************************************************************)
(* Properties of the CSV parser (SpecCsv).                                 *)
(***************************************************************************)
\* C17: parsing the RFC 4180 serialization of a header H and a row R gives
\* back exactly one object, holding under every header name the field of R
\* in that column, commas, quotes and newlines included.
C17_CsvRoundTrip ==
  calc.fn = "parseCsvToObjects" /\ calc.stage = "parsed"
    => calc.out = <<rowObject(calc.H, calc.R)>>

(***************************************************************************)
(* Properties of the fetch helpers (SpecFetch).                            *)
(***************************************************************************)
\* C19: fetchSheet tries the service account first; it sends the key
\* request only after the service account gave no data, and second; with no
\* data and no key (in the configuration or the environment) it raises the
\* configuration error without a key request; a non-2xx answer to the key
\* request is raised.  The outcome is the one the import runs are given.
C19_FetchFallbackOrder ==
  calc.fn = "fetchSheet" /\ calc.pc # "start"
    => LET hasKey == calc.in.cfgKey \/ calc.in.env
           settled == calc.pc \in {"returned", "raised"}
       IN /\ calc.calls[1] = "serviceAccount"
          /\ \A i \in DOMAIN calc.calls :
               calc.calls[i] = "apiKey" => i = 2 /\ calc.in.sa # "values"
          /\ settled /\ calc.in.sa = "values"
               => calc.pc = "returned" /\ calc.calls = <<"serviceAccount">>
          /\ settled /\ calc.in.sa # "values" /\ ~hasKey
               => /\ calc.pc = "raised" /\ calc.err = "config"
                  /\ calc.calls = <<"serviceAccount">>
          /\ settled /\ calc.in.sa # "values" /\ hasKey
               => /\ calc.calls = <<"serviceAccount", "apiKey">>
                  /\ calc.in.kr = "http" => calc.pc = "raised" /\ calc.err = "http"
                  /\ calc.in.kr = "ok" => calc.pc = "returned"
          /\ settled
               => /\ fetchSheet(AsTabInput(calc.in), hasKey).ok = (calc.pc = "returned")
                  /\ fetchSheet(AsTabInput(calc.in), hasKey).err = calc.err

C19_Witness ==
  /\ calc.fn = "fetchSheet"
  /\ calc.in.sa = "authfail" /\ ~calc.in.cfgKey /\ calc.in.env
  /\ calc.calls = <<"serviceAccount", "apiKey">>
  /\ calc.pc = "raised" /\ calc.err = "http"

\* the URLs whose answer is a 2xx body with a comma or a newline
Accepted(c) == {i \in DOMAIN c.urls : c.in.answers[c.urls[i]] = "csv"}

\* C20: tryFetchCsv fetches its URLs in the order export by gid (when a gid
\* is given), export by sheet name, gviz by sheet name, whole-document
\* export; every URL before the current one was refused; it returns the
\* body of the first accepted URL and fetches no further, an exception
\* counting as a refusal, and returns null when every URL is refused.  It
\* never raises.
C20_PublishedFetchOrder ==
  calc.fn = "tryFetchCsv" /\ calc.pc # "start"
    => /\ calc.pc # "raised"
       /\ calc.urls = tryUrls(calc.in.gid)
       /\ Len(calc.attempts) \in 1..Len(calc.urls)
       /\ calc.attempts = SubSeq(calc.urls, 1, Len(calc.attempts))
       /\ \A i \in 1..(Len(calc.attempts) - 1) : i \notin Accepted(calc)
       /\ calc.pc = "returned"
            => IF Accepted(calc) = {}
               THEN calc.text = "null" /\ calc.attempts = calc.urls
               ELSE /\ Len(calc.attempts) \in Accepted(calc)
                    /\ calc.text = calc.urls[Len(calc.attempts)]

C20_Witness ==
  /\ calc.fn = "tryFetchCsv"
  /\ calc.in.gid
  /\ calc.in.answers["exportByGid"] = "throws"
  /\ calc.in.answers["exportBySheet"] = "nodelimiter"
  /\ calc.in.answers["exportWhole"] = "csv"
  /\ calc.pc = "returned"
  /\ calc.attempts = <<"exportByGid", "exportBySheet", "gvizBySheet">>
  /\ calc.text = "gvizBySheet"

(***************************************************************************)
(* Properties of the inference (SpecInfer).                                *)
(***************************************************************************)
InferOrder == <<"candidates", "clients", "recruiters", "performance">>

KeysOf(kind, clientKeys) ==
  CASE kind = "candidates" -> CandidateKeys
    [] kind = "clients" -> clientKeys
    [] kind = "recruiters" -> RecruiterKeys
    [] kind = "performance" -> PerformanceKeys

\* kind is the first in the order candidate, client, recruiter, performance
\* whose keywords meet the header; null when none does or there is no data
FirstMatch(kind, hdr, hasData, clientKeys) ==
  IF kind = "null"
  THEN ~hasData \/ \A i \in 1..4 : ~has(KeysOf(InferOrder[i], clientKeys), hdr)
  ELSE /\ hasData
       /\ \E i \in 1..4 :
            /\ InferOrder[i] = kind
            /\ has(KeysOf(kind, clientKeys), hdr)
            /\ \A j \in 1..(i - 1) : ~has(KeysOf(InferOrder[j], clientKeys), hdr)

\* C21: inferType and inferRowsType return the first kind, in the order
\* candidate, client, recruiter, performance, one of whose keywords is in
\* the header, and null when none is; a header with "industry" and "target"
\* (and no candidate keyword) is a client sheet, never a performance sheet.
C21_InferencePriority ==
  calc.fn = "inferType" /\ calc.kind # "pending"
    => /\ FirstMatch(calc.kind, calc.resp.hdr, calc.resp.len > 0, ClientKeys)
       /\ FirstMatch(calc.rowsKind, calc.resp.hdr, calc.resp.len > 1,
                     PublishedClientKeys)
       /\ {"industry", "target"} \subseteq calc.resp.hdr
            /\ "client" \notin calc.resp.hdr /\ calc.resp.len > 1
            => calc.kind = "clients" /\ calc.rowsKind = "clients"

C21_Witness ==
  /\ calc.fn = "inferType"
  /\ calc.resp.hdr = {"name", "industry", "hired", "target"}
  /\ calc.resp.len > 1
  /\ calc.kind = "clients" /\ calc.rowsKind = "clients"

(***************************************************************************)
(* Properties of the routing and of the persistence step (SpecImport).     *)
(***************************************************************************)
\* the run has routed what it fetched
Routed(r) == runs[r].origin = "demand" /\ runs[r].pc # "fetch"

\* the tabs of run r that were fetched and hold at least one data row
TabsWithRows(r) ==
  {t \in KindSet : runs[r].res[t].ok /\ runs[r].res[t].len >= 2}

RowsOf(r, t) == parseRows(r, t, runs[r].res[t])

TargetOf(r, t) ==
  IF runs[r].src = "published"
  THEN PublishedTarget(t, runs[r].res[t])
  ELSE Target(t, runs[r].res[t])

\* C22: the rows of every fetched tab are in the result set of the
\* inferred kind when inference names another kind than the nominal one,
\* and in the result set of the nominal kind otherwise.
C22_RowsInInferredKind ==
  \A r \in DOMAIN runs :
    Routed(r) =>
      \A t \in TabsWithRows(r) : RowsOf(r, t) \subseteq runs[r].parsed[TargetOf(r, t)]

\* each tab of run r carries data rows under the canonical header of its
\* own kind
AllCanonical(r) ==
  /\ TabsWithRows(r) = KindSet
  /\ \A t \in KindSet : runs[r].res[t].hdr = CanonHeader(t)

\* C27: when every tab carries the canonical header of its own kind, all
\* four result sets are non-empty and each holds only its own tab's rows.
C27_CanonicalTabsStayNominal ==
  \A r \in DOMAIN runs :
    Routed(r) /\ AllCanonical(r) =>
      \A k \in KindSet :
        /\ runs[r].parsed[k] # {}
        /\ \A rec \in runs[r].parsed[k] : rec.tab = k

\* C28: every fetched tab with a data row has all its rows in exactly one
\* of the four result sets.
C28_NoTabLost ==
  \A r \in DOMAIN runs :
    Routed(r) =>
      \A t \in TabsWithRows(r) :
        \E k \in KindSet :
          /\ RowsOf(r, t) \subseteq runs[r].parsed[k]
          /\ \A j \in KindSet \ {k} : RowsOf(r, t) \cap runs[r].parsed[j] = {}

\* C29: after a run in which a deleteMany or an insertMany failed, the
\* store of each kind is the complete previous set or the complete newly
\* parsed set.
C29_FailedPersistIsAllOrNothing ==
  \A r \in DOMAIN runs :
    runs[r].origin = "demand" /\ runs[r].pc = "done" /\ runs[r].dbFailed =>
      \A k \in KindSet :
        store[k] = runs[r].before[k] \/ store[k] = runs[r].parsed[k]

\* C30: a run all four of whose fetches failed leaves the four stores as
\* they were.
C30_AllFetchesFailKeepsStore ==
  \A r \in DOMAIN runs :
    /\ runs[r].origin = "demand" /\ runs[r].src = "request"
    /\ runs[r].pc = "done"
    /\ \A t \in KindSet : ~runs[r].res[t].ok
    => store = runs[r].before

(***************************************************************************)
(* Properties of the save requests (SpecSaves).                            *)
(***************************************************************************)
\* C23: every armed timer has the period max(refreshIntervalMinutes, 0.05)
\* minutes of its configuration, 60 minutes when the interval was not a
\* number, and so never less than 3000 ms.
C23_IntervalFloor ==
  \A t \in timers :
    /\ t.ms >= 3000
    /\ t.ms = 600 * (t.ms \div 600)
    /\ t.ms \div 600 = Max(5, t.doc.minutes)

\* C24: for every key, any 60-second window holds at most
\* MAX_IMPORTS_PER_MINUTE calls of run() that invoked the orchestrator,
\* immediate runs after a save included.
C24_CeilingAcrossSaves ==
  \A k \in Keys : \A i \in DOMAIN callLog[k] :
    callLog[k][i].out = "invoked"
      => Cardinality(InvokedInWindow(k, i)) + 1 <= MAX_IMPORTS_PER_MINUTE

\* C26: once startup is over and every save request has completed, a key
\* has an active timer exactly when its persisted configuration has
\* autoRefresh, and the timer's interval, apiKey and ranges are those of
\* the persisted configuration.
C26_SchedulerAgreesWithStore ==
  boot.pc = "up" /\ saves = {}
    => \A k \in Keys :
         /\ ActiveTimers(k) # {} <=> configs[k].present /\ configs[k].autoRefresh
         /\ \A t \in ActiveTimers(k) :
              /\ t.doc.minutes = configs[k].minutes
              /\ t.doc.apiKey = configs[k].apiKey
              /\ t.doc.ranges = configs[k].ranges

(***************************************************************************)
(* Properties of stopped jobs (Spec).                                      *)
(***************************************************************************)
\* the timer of the job that started run r is no longer armed
JobStopped(r) ==
  /\ runs[r].origin = "sched"
  /\ \A t \in timers : t.id # runs[r].timer

\* C25: a scheduled run whose job has been stopped writes nothing any more:
\* none of its steps changes a record store or a configuration.
C25_StoppedJobWritesNothing ==
  [][\A r \in DOMAIN runs :
       /\ JobStopped(r)
       /\ runs[r].pc \in {"del", "ins", "stamp"}
       /\ runs'[r] # runs[r]
       => store' = store /\ configs' = configs]_vars

====
